---- MODULE Spec2Model ----
\* Model of streams-custom-transports (src/src/main.rs): the ImmuDB transport
\* adapter (login, send_message, recv_message) and the driver `main` that runs
\* an Author and a Subscriber of the channel protocol over that adapter.
\*
\* The channel protocol engine (iota_streams) and the HTTP store are external
\* to the repository.  Their behaviour is modelled from the capability
\* contracts of the specification; those definitions are marked as such.
EXTENDS Integers, Sequences, FiniteSets, TLC

VARIABLES
    store,              \* the store's records: encoded key -> encoded value
    issued,             \* the session credential the store issued at login
    client,             \* ImmuDB.client: the credential the HTTP client holds
    lastReq,            \* the last request the adapter made
    lastRes,            \* what the adapter returned to its caller for it
    lastResp,           \* the store's answer to that request
    lastFault,          \* the fault, if any, behind that answer
    inflight,           \* the requests sent to the store and not yet answered
    pc,                 \* position of `main`
    run,                \* number of the current run of the driver
    reliable,           \* whether the store answers every request faithfully
    faults,             \* store faults injected so far
    author,             \* the Author's state (engine)
    subscriber,         \* the Subscriber's state (engine)
    is_new,             \* main: is_new
    num_msgs,           \* main: num_msgs
    subscriber_is_new,  \* main: subscriber_is_new
    keyload_link,       \* main: keyload_link
    last_msg_link,      \* main: last_msg_link
    x,                  \* main: loop variable x
    sent,               \* the signed packets the Author published, in order
    consumed,           \* the messages the Subscriber's sequence yielded
    hist                \* per-run observations the properties refer to

vars == << store, issued, client, lastReq, lastResp, lastRes, lastFault, inflight, pc, run, reliable, faults,
           author, subscriber, is_new, num_msgs, subscriber_is_new,
           keyload_link, last_msg_link, x, sent, consumed, hist >>

-----------------------------------------------------------------------------
\* Bounds of the model

MaxRuns == 2
MaxFaults == 1
MaxBodyLen == 3

-----------------------------------------------------------------------------
\* Text-safe encoding (base64 crate, standard alphabet with padding).
\* A text is a sequence of symbols 0..63; Pad is '='.

Pad == 64

RECURSIVE encode(_)
encode(bytes) ==
    IF Len(bytes) = 0 THEN << >>
    ELSE IF Len(bytes) = 1 THEN
        << bytes[1] \div 4, (bytes[1] % 4) * 16, Pad, Pad >>
    ELSE IF Len(bytes) = 2 THEN
        << bytes[1] \div 4,
           (bytes[1] % 4) * 16 + (bytes[2] \div 16),
           (bytes[2] % 16) * 4,
           Pad >>
    ELSE
        << bytes[1] \div 4,
           (bytes[1] % 4) * 16 + (bytes[2] \div 16),
           (bytes[2] % 16) * 4 + (bytes[3] \div 64),
           bytes[3] % 64 >> \o encode(SubSeq(bytes, 4, Len(bytes)))

DecodeError == [ok |-> FALSE, bytes |-> << >>]

\* decode with the low bits of the last byte of a two-byte tail dropped
RECURSIVE decode_truncating(_)
decode_truncating(text) ==
    IF Len(text) = 0 THEN [ok |-> TRUE, bytes |-> << >>]
    ELSE IF Len(text) < 4 THEN DecodeError
    ELSE
        LET a == text[1]
            b == text[2]
            c == text[3]
            d == text[4]
            last == Len(text) = 4
        IN  IF a = Pad \/ b = Pad THEN DecodeError
            ELSE IF c = Pad THEN
                IF d = Pad /\ last /\ b % 16 = 0
                THEN [ok |-> TRUE, bytes |-> << a * 4 + (b \div 16) >>]
                ELSE DecodeError
            ELSE IF d = Pad THEN
                IF last /\ c % 4 = 0
                THEN [ok |-> TRUE,
                      bytes |-> << a * 4 + (b \div 16), (b % 16) * 16 >>]
                ELSE DecodeError
            ELSE
                LET rest == decode_truncating(SubSeq(text, 5, Len(text)))
                IN  IF rest.ok
                    THEN [ok |-> TRUE,
                          bytes |-> << a * 4 + (b \div 16),
                                       (b % 16) * 16 + (c \div 4),
                                       (c % 4) * 64 + d >> \o rest.bytes]
                    ELSE DecodeError

RECURSIVE decode(_)
decode(text) ==
    IF Len(text) = 0 THEN [ok |-> TRUE, bytes |-> << >>]
    ELSE IF Len(text) < 4 THEN DecodeError
    ELSE
        LET a == text[1]
            b == text[2]
            c == text[3]
            d == text[4]
            last == Len(text) = 4
        IN  IF a = Pad \/ b = Pad THEN DecodeError
            ELSE IF c = Pad THEN
                IF d = Pad /\ last /\ b % 16 = 0
                THEN [ok |-> TRUE, bytes |-> << a * 4 + (b \div 16) >>]
                ELSE DecodeError
            ELSE IF d = Pad THEN
                IF last /\ c % 4 = 0
                THEN [ok |-> TRUE,
                      bytes |-> << a * 4 + (b \div 16),
                                   (b % 16) * 16 + (c \div 4) >>]
                ELSE DecodeError
            ELSE
                LET rest == decode(SubSeq(text, 5, Len(text)))
                IN  IF rest.ok
                    THEN [ok |-> TRUE,
                          bytes |-> << a * 4 + (b \div 16),
                                       (b % 16) * 16 + (c \div 4),
                                       (c % 4) * 64 + d >> \o rest.bytes]
                    ELSE DecodeError

-----------------------------------------------------------------------------
\* Links and messages

\* to_msg_index keeping the low byte of the link only
to_msg_index_low(link) == << 0, link % 256 >>

\* TangleAddress::to_msg_index: the canonical index of a link, as bytes.
to_msg_index(link) == << link \div 256, link % 256 >>

\* TangleAddress::default(): the previous-message address recv_message fills in.
DefaultAddress == -1

\* TangleMessage::new(link, prev, body)
TangleMessage(link, prev, body) == [link |-> link, prev |-> prev, body |-> body]

-----------------------------------------------------------------------------
\* The HTTP client and the store's wire contract

NoCred == "none"
Token == "token"
NoValue == << Pad, Pad, Pad, Pad, Pad >>
NoReq == [kind |-> "none", url |-> << >>, key |-> << >>, value |-> << >>, cred |-> NoCred]
NoRes == [kind |-> "none"]

\* reqwest::Client::new(): a client with default settings keeps no cookie
\* store, so it holds no credential.
NewClient == [cred |-> NoCred]

build_url(path) == << "http://127.0.0.1:3323", path >>

\* StatusCode::is_success
is_success(status) == status >= 200 /\ status <= 299

NetErr == [net |-> FALSE, status |-> 0, value |-> NoValue]
Response(status, value) == [net |-> TRUE, status |-> status, value |-> value]

\* The ways the store can answer: faithfully ("none"), not at all ("neterr"),
\* with an error status ("status"), after applying a write whose answer is
\* lost ("lost"), with a body that has no value field ("novalue") or whose
\* value is not valid encoded text ("badvalue": a wrong length, "badpad": a
\* padding symbol in front).
SetFaults == {"none", "neterr", "status", "lost"}
GetFaults == {"none", "neterr", "status", "novalue", "badvalue", "badpad"}
LoginFaults == {"none", "neterr", "status"}

\* POST /db/verified/set: the store's records after the request
StoreSet(s, key, value, f) ==
    IF f \in {"none", "lost"}
    THEN [k \in DOMAIN s \cup {key} |-> IF k = key THEN value ELSE s[k]]
    ELSE s

\* POST /db/verified/set: the store's answer
SetResponse(f) ==
    IF f = "none" THEN Response(200, NoValue)
    ELSE IF f = "status" THEN Response(500, NoValue)
    ELSE NetErr

\* POST /db/verified/get: the store's answer
GetResponse(s, key, f) ==
    IF f = "none" THEN
        IF key \in DOMAIN s THEN Response(200, s[key]) ELSE Response(404, NoValue)
    ELSE IF f = "status" THEN Response(500, NoValue)
    ELSE IF f = "novalue" THEN Response(200, NoValue)
    ELSE IF f = "badvalue" THEN Response(200, << 0 >>)
    ELSE IF f = "badpad" THEN Response(200, << Pad, 0, 0, 0 >>)
    ELSE NetErr

\* POST /login and GET /db/use/defaultdb: the store's answer
LoginResponse(f) ==
    IF f = "none" THEN Response(200, NoValue)
    ELSE IF f = "status" THEN Response(401, NoValue)
    ELSE NetErr

-----------------------------------------------------------------------------
\* The transport adapter: impl Transport for ImmuDB

Ok(v) == [kind |-> "ok", value |-> v]
Err(e) == [kind |-> "err", error |-> e]
Panic == [kind |-> "panic"]

\* The request send_message makes
SetRequest(c, msg) ==
    [kind |-> "set",
     url |-> build_url("/db/verified/set"),
     key |-> encode(to_msg_index(msg.link)),
     value |-> encode(msg.body),
     cred |-> c.cred]

\* GetRequest with the key taken from the low byte of the link only
GetRequest_low_byte(c, link) ==
    [kind |-> "get",
     url |-> build_url("/db/verified/get"),
     key |-> encode(<< link % 256 >>),
     value |-> << >>,
     cred |-> c.cred]

\* The request recv_message makes
GetRequest(c, link) ==
    [kind |-> "get",
     url |-> build_url("/db/verified/get"),
     key |-> encode(to_msg_index(link)),
     value |-> << >>,
     cred |-> c.cred]

\* send_message accepting the status 201 only
send_message_created(msg, resp) ==
    IF ~resp.net THEN Err(<< "reqwest" >>)
    ELSE IF resp.status = 201 THEN Ok(<< >>)
    ELSE Err(<< "error sending message to", to_msg_index(msg.link) >>)

\* send_message without the check of the status
send_message_unchecked(msg, resp) ==
    IF ~resp.net THEN Err(<< "reqwest" >>) ELSE Ok(<< >>)

\* send_message, given the store's answer
send_message(msg, resp) ==
    IF ~resp.net THEN Err(<< "reqwest" >>)
    ELSE IF is_success(resp.status) THEN Ok(<< >>)
    ELSE Err(<< "error sending message to", to_msg_index(msg.link) >>)

\* recv_message with `unwrap_or_default()` in place of the `?` after decode
recv_message_lenient(link, resp) ==
    IF ~resp.net THEN Err(<< "reqwest" >>)
    ELSE IF is_success(resp.status) THEN
        IF resp.value = NoValue THEN Panic
        ELSE IF decode(resp.value).ok
             THEN Ok(TangleMessage(link, DefaultAddress, decode(resp.value).bytes))
             ELSE Ok(TangleMessage(link, DefaultAddress, << >>))
    ELSE Err(<< "Error", resp.status >>)

\* recv_message answering a miss with a message of empty body
recv_message_defaulting(link, resp) ==
    IF ~resp.net THEN Err(<< "reqwest" >>)
    ELSE IF is_success(resp.status) THEN
        IF resp.value = NoValue THEN Panic
        ELSE IF decode(resp.value).ok
             THEN Ok(TangleMessage(link, DefaultAddress, decode(resp.value).bytes))
             ELSE Err(<< "base64" >>)
    ELSE Ok(TangleMessage(link, DefaultAddress, << >>))

\* recv_message, given the store's answer
recv_message(link, resp) ==
    IF ~resp.net THEN Err(<< "reqwest" >>)
    ELSE IF is_success(resp.status) THEN
        IF resp.value = NoValue THEN Panic
        ELSE IF decode(resp.value).ok
             THEN Ok(TangleMessage(link, DefaultAddress, decode(resp.value).bytes))
             ELSE Err(<< "base64" >>)
    ELSE Err(<< "Error", resp.status >>)

-----------------------------------------------------------------------------
\* One call of the adapter against the store: the request made, the store's
\* records afterwards and the value returned to the caller.

Send(msg, f) ==
    /\ lastReq' = SetRequest(client, msg)
    /\ store' = StoreSet(store, lastReq'.key, lastReq'.value, f)
    /\ lastResp' = SetResponse(f)
    /\ lastRes' = send_message(msg, lastResp')
    /\ lastFault' = f

Recv(link, f) ==
    /\ lastReq' = GetRequest(client, link)
    /\ store' = store
    /\ lastResp' = GetResponse(store, lastReq'.key, f)
    /\ lastRes' = recv_message(link, lastResp')
    /\ lastFault' = f

\* `.send().await`: the request that is answered is the one main is waiting
\* for, and no request is outstanding afterwards
Answered ==
    /\ inflight = << lastReq' >>
    /\ inflight' = << >>

\* The requests ImmuDB::login makes
LoginRequest(c) ==
    [kind |-> "login", url |-> build_url("/login"),
     key |-> encode(<< 105 >>), value |-> encode(<< 105 >>), cred |-> c.cred]

UseDbRequest(c) ==
    [kind |-> "use_db", url |-> build_url("/db/use/defaultdb"),
     key |-> << >>, value |-> << >>, cred |-> c.cred]

\* A store that is not reliable fails at most MaxFaults times.
Budget(f) ==
    /\ f # "none" => (~reliable /\ faults < MaxFaults)
    /\ faults' = IF f = "none" THEN faults ELSE faults + 1

-----------------------------------------------------------------------------
\* The channel protocol engine (external): links, message framing and the
\* state of the two roles.

NoLink == -1

\* Author::announcement_link: determined by the Author's seed
AnnLink == 0

\* the link of the Subscriber's subscription message
SubLink == 1

\* the link of the n-th message the Author publishes after the announcement
ChainLink(n) == 2 + n

Announce == 0
Subscribe == 1
Keyload == 2
SignedPacket == 3

\* the wire form of a message: type, linked-to link, public and masked payload
frame(type, link_to, public, masked) ==
    << type, link_to \div 256, link_to % 256, Len(public) >> \o public \o masked

wellFramed(body) == Len(body) >= 4 /\ Len(body) >= 4 + body[4]

unframe(body) ==
    [type |-> body[1],
     link_to |-> body[2] * 256 + body[3],
     public |-> SubSeq(body, 5, 4 + body[4]),
     masked |-> SubSeq(body, 5 + body[4], Len(body))]

None == [some |-> FALSE, v |-> << >>]
Some(v) == [some |-> TRUE, v |-> v]

\* MessageContent::masked_payload: only packets carry one
masked_payload(body) ==
    IF unframe(body).type = SignedPacket THEN Some(unframe(body).masked) ELSE None

\* Author::new / Author::recover: an Author that has published nothing yet
NewAuthor == [seq |-> 0, subscribers |-> {}]

\* Subscriber::new
NewSubscriber == [seq |-> 0, announced |-> FALSE]

AnnounceMsg == TangleMessage(AnnLink, AnnLink, frame(Announce, AnnLink, << >>, << >>))
SubscribeMsg == TangleMessage(SubLink, AnnLink, frame(Subscribe, AnnLink, << >>, << >>))
KeyloadMsg(a, link_to) ==
    TangleMessage(ChainLink(a.seq), link_to, frame(Keyload, link_to, << >>, << >>))
PacketMsg(a, link_to, public, masked) ==
    TangleMessage(ChainLink(a.seq), link_to, frame(SignedPacket, link_to, public, masked))

\* the links a reader that has processed n chain messages can follow
Known(n) == {AnnLink} \cup {ChainLink(i) : i \in 0 .. n - 1}

-----------------------------------------------------------------------------
\* Literals of main

\* b"test branch"
TestBranch == << 116, 101, 115, 116, 32, 98, 114, 97, 110, 99, 104 >>

\* b"empty"
empty_payload == << 101, 109, 112, 116, 121 >>

\* for x in 0u8..100
NumLoopMsgs == 100

\* x.to_ne_bytes() of a u8
to_ne_bytes(v) == << v % 256 >>

-----------------------------------------------------------------------------
\* Observations

AnnKey == encode(to_msg_index(AnnLink))

\* the steps of main, after the announcement, that exchange messages with the
\* store
MessageSteps ==
    {"receive_announcement", "send_subscribe", "receive_subscribe", "send_keyload",
     "send_first_packet", "send_loop", "consume"}

NewHist(s, done) ==
    [annAtStart |-> AnnKey \in DOMAIN s,
     annWrite |-> FALSE,
     annFail |-> "none",
     recover |-> FALSE,
     loginBad |-> FALSE,
     msgReqAfterBadLogin |-> FALSE,
     resend |-> FALSE,
     faulty |-> FALSE,
     logins |-> 0,
     useDbs |-> 0,
     failedStep |-> "none",
     subNotNew |-> FALSE,
     written |-> << >>,
     arg |-> NoLink,
     prevDone |-> done]

\* h after the adapter made request req against the records s and the store
\* answered with fault f
Note(h, s, req, f) ==
    [h EXCEPT !.annWrite = @ \/ (req.kind = "set" /\ req.key = AnnKey),
              !.msgReqAfterBadLogin = @ \/ (h.loginBad /\ req.kind \in {"set", "get"}),
              !.resend = /\ req.kind = "set"
                         /\ req.key \in DOMAIN s
                         /\ s[req.key] = req.value,
              !.faulty = @ \/ f # "none",
              !.failedStep = IF @ = "none" /\ f # "none" /\ pc \in MessageSteps
                             THEN pc ELSE @]

-----------------------------------------------------------------------------
\* The driver

\* the records of a store in which an earlier run of the driver got as far as
\* the announcement
AnnouncedOnly == StoreSet(<< >>, AnnKey, encode(AnnounceMsg.body), "none")

Init ==
    /\ store \in {<< >>, AnnouncedOnly}
    /\ issued = NoCred
    /\ client = NewClient
    /\ lastReq = NoReq
    /\ lastResp = NetErr
    /\ lastRes = NoRes
    /\ lastFault = "none"
    /\ inflight = << >>
    /\ pc = "login"
    /\ run = 1
    /\ reliable = TRUE
    /\ faults = 0
    /\ author = NewAuthor
    /\ subscriber = NewSubscriber
    /\ is_new = FALSE
    /\ num_msgs = 0
    /\ subscriber_is_new = FALSE
    /\ keyload_link = NoLink
    /\ last_msg_link = NoLink
    /\ x = 0
    /\ sent = << >>
    /\ consumed = << >>
    /\ hist = NewHist(store, 0)

locals == << is_new, num_msgs, subscriber_is_new, keyload_link, last_msg_link, x >>

\* the `?` after an awaited call: an error ends main with that error
Try_ignored(res, next) == next

Try(res, next) == IF res.kind = "ok" THEN next ELSE "aborted"

\* ImmuDB::login: the second request follows the first
AfterLoginPost == "use_db"

\* ImmuDB::login, first request: POST /login
login ==
    /\ pc = "login"
    /\ \E f \in LoginFaults :
        /\ Budget(f)
        /\ lastReq' = LoginRequest(client)
        /\ Answered
        /\ lastFault' = f
        /\ issued' = IF f = "none" THEN Token ELSE issued
        /\ lastResp' = LoginResponse(f)
        /\ lastRes' = IF lastResp'.net THEN Ok(<< >>) ELSE Err(<< "reqwest" >>)
        /\ hist' = [hist EXCEPT
                       !.loginBad = @ \/ (lastResp'.net /\ ~is_success(lastResp'.status)),
                       !.logins = @ + 1,
                       !.faulty = @ \/ f # "none"]
    /\ pc' = Try(lastRes', AfterLoginPost)
    /\ UNCHANGED << store, client, run, reliable, author, subscriber, locals, sent, consumed >>

\* ImmuDB::login, second request: GET /db/use/defaultdb
login_use_db ==
    /\ pc = "use_db"
    /\ \E f \in LoginFaults :
        /\ Budget(f)
        /\ lastReq' = UseDbRequest(client)
        /\ Answered
        /\ lastFault' = f
        /\ lastResp' = LoginResponse(f)
        /\ lastRes' = IF lastResp'.net THEN Ok(<< >>) ELSE Err(<< "reqwest" >>)
        /\ hist' = [hist EXCEPT
                       !.loginBad = @ \/ (lastResp'.net /\ ~is_success(lastResp'.status)),
                       !.useDbs = @ + 1,
                       !.faulty = @ \/ f # "none"]
    /\ pc' = Try(lastRes', "announce")
    /\ author' = IF lastRes'.kind = "ok" THEN NewAuthor ELSE author
    /\ UNCHANGED << store, issued, client, run, reliable, subscriber, locals, sent, consumed >>

\* is_new negated
IsNew_negated(res) == res.kind # "ok"

\* main: `let is_new = author.send_announce().await.is_ok()`
IsNew(res) == res.kind = "ok"

\* main without the sync of a new channel
AfterAnnounce_nosync(new) == IF new THEN "receive_announcement" ELSE "recover"

\* main: `if !is_new { author = Author::recover(...) }`, then sync_state
AfterAnnounce(new) == IF new THEN "sync" ELSE "recover"

\* Author::send_announce, first part: the engine looks for a record at the
\* announcement link and refuses to announce a channel that exists
send_announce_check ==
    /\ pc = "announce"
    /\ \E f \in GetFaults : Budget(f) /\ Recv(AnnLink, f) /\ Answered
    /\ is_new' = (lastRes'.kind = "ok" /\ IsNew(Err(<< "ChannelDuplication" >>)))
    /\ pc' = IF lastRes'.kind = "ok" THEN AfterAnnounce(is_new')
             ELSE IF lastRes'.kind = "panic" THEN "aborted"
             ELSE "announce_send"
    /\ hist' = Note(IF lastRes'.kind = "ok"
                    THEN [hist EXCEPT !.annFail = "exists"] ELSE hist,
                    store, lastReq', lastFault')
    /\ UNCHANGED << issued, client, run, reliable, author, subscriber, num_msgs,
                    subscriber_is_new, keyload_link, last_msg_link, x, sent, consumed >>

\* Author::send_announce, second part, and main's `is_new = ... .is_ok()`
send_announce ==
    /\ pc = "announce_send"
    /\ \E f \in SetFaults : Budget(f) /\ Send(AnnounceMsg, f) /\ Answered
    /\ is_new' = IsNew(lastRes')
    /\ pc' = AfterAnnounce(is_new')
    /\ hist' = Note(IF is_new' THEN hist ELSE [hist EXCEPT !.annFail = "other"],
                    store, lastReq', lastFault')
    /\ UNCHANGED << issued, client, run, reliable, author, subscriber, num_msgs,
                    subscriber_is_new, keyload_link, last_msg_link, x, sent, consumed >>

SubKey == encode(to_msg_index(SubLink))

\* the Authors Author::recover can return: whether the rebuilt Author knows the
\* subscriber of an earlier run is the engine's matter
RecoveredAuthors(s) ==
    {NewAuthor} \cup (IF SubKey \in DOMAIN s
                      THEN {[seq |-> 0, subscribers |-> {SubLink}]} ELSE {})

\* Author::recover: rebuilds the Author from the announcement in the store
recover ==
    /\ pc = "recover"
    /\ \E f \in GetFaults : Budget(f) /\ Recv(AnnLink, f) /\ Answered
    /\ pc' = Try(lastRes', "sync")
    /\ IF lastRes'.kind = "ok"
       THEN author' \in RecoveredAuthors(store)
       ELSE author' = author
    /\ hist' = Note([hist EXCEPT !.recover = TRUE], store, lastReq', lastFault')
    /\ UNCHANGED << issued, client, run, reliable, subscriber, locals, sent, consumed >>

\* Author::sync_state: one fetch of the next message of the chain; the first
\* link without a message ends the scan and returns the count
sync_state ==
    /\ pc = "sync"
    /\ \E f \in GetFaults : Budget(f) /\ Recv(ChainLink(author.seq), f) /\ Answered
    /\ IF lastRes'.kind = "ok" /\ wellFramed(lastRes'.value.body)
       THEN /\ author' = [author EXCEPT !.seq = @ + 1]
            /\ num_msgs' = num_msgs + 1
            /\ pc' = "sync"
       ELSE /\ author' = author
            /\ num_msgs' = num_msgs
            /\ pc' = IF lastRes'.kind = "panic" THEN "aborted" ELSE "receive_announcement"
    /\ hist' = Note(hist, store, lastReq', lastFault')
    /\ UNCHANGED << issued, client, run, reliable, subscriber, is_new, subscriber_is_new,
                    keyload_link, last_msg_link, x, sent, consumed >>

\* Subscriber::new and Subscriber::receive_announcement
receive_announcement ==
    /\ pc = "receive_announcement"
    /\ \E f \in GetFaults : Budget(f) /\ Recv(AnnLink, f) /\ Answered
    /\ IF lastRes'.kind = "ok" /\ wellFramed(lastRes'.value.body)
       THEN pc' = "send_subscribe" /\ subscriber' = [seq |-> 0, announced |-> TRUE]
       ELSE pc' = "aborted" /\ subscriber' = NewSubscriber
    /\ hist' = Note(hist, store, lastReq', lastFault')
    /\ UNCHANGED << issued, client, run, reliable, author, locals, sent, consumed >>

\* Subscriber::send_subscribe
send_subscribe ==
    /\ pc = "send_subscribe"
    /\ \E f \in SetFaults : Budget(f) /\ Send(SubscribeMsg, f) /\ Answered
    /\ pc' = Try(lastRes', "receive_subscribe")
    /\ hist' = Note(hist, store, lastReq', lastFault')
    /\ UNCHANGED << issued, client, run, reliable, author, subscriber, locals, sent, consumed >>

\* Author::receive_subscribe: the subscription is read and processed; a
\* subscriber the Author knows already is refused
ReceiveSubscribe(a, res) ==
    IF res.kind # "ok" THEN res
    ELSE IF ~wellFramed(res.value.body) THEN Err(<< "BadMessage" >>)
    ELSE IF SubLink \in a.subscribers THEN Err(<< "SubscriberExists" >>)
    ELSE Ok(<< >>)

\* main with a `?` on receive_subscribe
AfterReceiveSubscribe_tried(res) == Try(res, "send_keyload")

\* main: `let subscriber_is_new = author.receive_subscribe(..).await.is_ok()`
\* goes on whatever the outcome
AfterReceiveSubscribe(res) == IF res.kind = "panic" THEN "aborted" ELSE "send_keyload"

\* Author::receive_subscribe and main's `subscriber_is_new = ... .is_ok()`
receive_subscribe ==
    /\ pc = "receive_subscribe"
    /\ \E f \in GetFaults : Budget(f) /\ Recv(SubLink, f) /\ Answered
    /\ subscriber_is_new' = (ReceiveSubscribe(author, lastRes').kind = "ok")
    /\ author' = IF subscriber_is_new'
                 THEN [author EXCEPT !.subscribers = @ \cup {SubLink}] ELSE author
    /\ pc' = AfterReceiveSubscribe(ReceiveSubscribe(author, lastRes'))
    /\ hist' = Note([hist EXCEPT !.subNotNew =
                         ReceiveSubscribe(author, lastRes') = Err(<< "SubscriberExists" >>)],
                    store, lastReq', lastFault')
    /\ UNCHANGED << issued, client, run, reliable, subscriber, is_new, num_msgs,
                    keyload_link, last_msg_link, x, sent, consumed >>

\* Author::send_keyload_for_everyone(&announcement_link)
send_keyload_for_everyone ==
    /\ pc = "send_keyload"
    /\ \E f \in SetFaults : Budget(f) /\ Send(KeyloadMsg(author, AnnLink), f) /\ Answered
    /\ IF lastRes'.kind = "ok"
       THEN /\ keyload_link' = ChainLink(author.seq)
            /\ author' = [author EXCEPT !.seq = @ + 1]
       ELSE /\ keyload_link' = keyload_link
            /\ author' = author
    /\ pc' = Try(lastRes', "send_first_packet")
    /\ hist' = Note(hist, store, lastReq', lastFault')
    /\ UNCHANGED << issued, client, run, reliable, subscriber, is_new, num_msgs,
                    subscriber_is_new, last_msg_link, x, sent, consumed >>

\* Author::send_signed_packet(link_to, public, masked) as main calls it
SendPacket(link_to, public, masked, f) ==
    /\ Budget(f)
    /\ Send(PacketMsg(author, link_to, public, masked), f)
    /\ Answered
    /\ IF lastRes'.kind = "ok"
       THEN /\ last_msg_link' = ChainLink(author.seq)
            /\ author' = [author EXCEPT !.seq = @ + 1]
            /\ sent' = Append(sent, [link |-> ChainLink(author.seq),
                                     link_to |-> link_to, masked |-> masked,
                                     run |-> run])
       ELSE /\ last_msg_link' = last_msg_link
            /\ author' = author
            /\ sent' = sent
    /\ hist' = Note(hist, store, lastReq', lastFault')

\* the first packet's arguments: main.rs line 47
FirstPublic == << >>
FirstMasked == TestBranch

\* the loop's packet arguments: main.rs line 52
LoopPublic(v) == << >>

\* LoopMasked off by one
LoopMasked_next(v) == to_ne_bytes(v + 1)

LoopMasked(v) == to_ne_bytes(v)

\* every packet of the loop chained to the keyload
LoopLinkTo_keyload == keyload_link

\* main.rs line 52: `&last_msg_link`
LoopLinkTo == last_msg_link

\* main: the first signed packet, chained to the keyload
send_first_packet ==
    /\ pc = "send_first_packet"
    /\ \E f \in SetFaults : SendPacket(keyload_link, FirstPublic, FirstMasked, f)
    /\ x' = 0
    /\ pc' = Try(lastRes', "send_loop")
    /\ UNCHANGED << issued, client, run, reliable, subscriber, is_new, num_msgs,
                    subscriber_is_new, keyload_link, consumed >>

\* main: one iteration of `for x in 0u8..100`
send_loop ==
    /\ pc = "send_loop"
    /\ x < NumLoopMsgs
    /\ \E f \in SetFaults : SendPacket(LoopLinkTo, LoopPublic(x), LoopMasked(x), f)
    /\ x' = IF lastRes'.kind = "ok" THEN x + 1 ELSE x
    /\ pc' = Try(lastRes', IF x' < NumLoopMsgs THEN "send_loop" ELSE "consume")
    /\ UNCHANGED << issued, client, run, reliable, subscriber, is_new, num_msgs,
                    subscriber_is_new, keyload_link, consumed >>

\* main: one iteration of `while let Some(msg) = messages.try_next().await?`
\* The sequence fetches the next link of the chain; a link without a message
\* (any receive error) ends it, a message it cannot attach to a message it
\* knows is an error.
try_next ==
    /\ pc = "consume"
    /\ \E f \in GetFaults : Budget(f) /\ Recv(ChainLink(subscriber.seq), f) /\ Answered
    /\ IF lastRes'.kind = "ok"
       THEN IF /\ wellFramed(lastRes'.value.body)
               /\ unframe(lastRes'.value.body).link_to \in Known(subscriber.seq)
            THEN /\ subscriber' = [subscriber EXCEPT !.seq = @ + 1]
                 /\ consumed' = Append(consumed,
                      [link |-> lastRes'.value.link,
                       masked |-> masked_payload(lastRes'.value.body),
                       payload |-> IF masked_payload(lastRes'.value.body).some
                                   THEN masked_payload(lastRes'.value.body).v
                                   ELSE empty_payload])
                 /\ pc' = "consume"
            ELSE /\ subscriber' = subscriber
                 /\ consumed' = consumed
                 /\ pc' = "aborted"
       ELSE /\ subscriber' = subscriber
            /\ consumed' = consumed
            /\ pc' = IF lastRes'.kind = "panic" THEN "aborted" ELSE "done"
    /\ hist' = Note(hist, store, lastReq', lastFault')
    /\ UNCHANGED << issued, client, run, reliable, author, locals, sent >>

\* the request main makes at the step it is at
StepRequest ==
    CASE pc = "login" -> LoginRequest(client)
      [] pc = "use_db" -> UseDbRequest(client)
      [] pc \in {"announce", "recover", "receive_announcement"} -> GetRequest(client, AnnLink)
      [] pc = "announce_send" -> SetRequest(client, AnnounceMsg)
      [] pc = "sync" -> GetRequest(client, ChainLink(author.seq))
      [] pc = "send_subscribe" -> SetRequest(client, SubscribeMsg)
      [] pc = "receive_subscribe" -> GetRequest(client, SubLink)
      [] pc = "send_keyload" -> SetRequest(client, KeyloadMsg(author, AnnLink))
      [] pc = "send_first_packet" ->
            SetRequest(client, PacketMsg(author, keyload_link, FirstPublic, FirstMasked))
      [] pc = "send_loop" ->
            SetRequest(client, PacketMsg(author, LoopLinkTo, LoopPublic(x), LoopMasked(x)))
      [] pc = "consume" -> GetRequest(client, ChainLink(subscriber.seq))

\* main reaches the `.send()` of its step: the request goes out, and main is
\* suspended at the `.await` until the answer is there
issue ==
    /\ pc \notin {"done", "aborted", "adapter"}
    /\ inflight = << >>
    /\ inflight' = Append(inflight, StepRequest)
    /\ UNCHANGED << store, issued, client, lastReq, lastResp, lastRes, lastFault, pc,
                    run, reliable, faults, author, subscriber, locals, sent, consumed,
                    hist >>

\* The operator runs the driver again against the same store.
Restart ==
    /\ pc \in {"done", "aborted"}
    /\ run < MaxRuns
    /\ run' = run + 1
    /\ pc' = "login"
    /\ client' = NewClient
    /\ issued' = NoCred
    /\ lastReq' = NoReq
    /\ lastResp' = NetErr
    /\ lastRes' = NoRes
    /\ lastFault' = "none"
    /\ inflight' = << >>
    /\ author' = NewAuthor
    /\ subscriber' = NewSubscriber
    /\ is_new' = FALSE
    /\ num_msgs' = 0
    /\ subscriber_is_new' = FALSE
    /\ keyload_link' = NoLink
    /\ last_msg_link' = NoLink
    /\ x' = 0
    /\ consumed' = << >>
    /\ hist' = NewHist(store, hist.prevDone + (IF pc = "done" THEN 1 ELSE 0))
    /\ UNCHANGED << store, reliable, faults, sent >>

Next ==
    \/ issue
    \/ login
    \/ login_use_db
    \/ send_announce_check
    \/ send_announce
    \/ recover
    \/ sync_state
    \/ receive_announcement
    \/ send_subscribe
    \/ receive_subscribe
    \/ send_keyload_for_everyone
    \/ send_first_packet
    \/ send_loop
    \/ try_next
    \/ Restart

\* The driver run, and run again, against a store that answers faithfully
Spec == Init /\ [][Next]_vars

\* One run of the driver on a fresh store that may fail up to MaxFaults times
FaultyInit ==
    /\ store = << >>
    /\ issued = NoCred
    /\ client = NewClient
    /\ lastReq = NoReq
    /\ lastResp = NetErr
    /\ lastRes = NoRes
    /\ lastFault = "none"
    /\ inflight = << >>
    /\ pc = "login"
    /\ run = 1
    /\ reliable = FALSE
    /\ faults = 0
    /\ author = NewAuthor
    /\ subscriber = NewSubscriber
    /\ is_new = FALSE
    /\ num_msgs = 0
    /\ subscriber_is_new = FALSE
    /\ keyload_link = NoLink
    /\ last_msg_link = NoLink
    /\ x = 0
    /\ sent = << >>
    /\ consumed = << >>
    /\ hist = NewHist(<< >>, 0)

FaultyNext ==
    \/ issue
    \/ login
    \/ login_use_db
    \/ send_announce_check
    \/ send_announce
    \/ recover
    \/ sync_state
    \/ receive_announcement
    \/ send_subscribe
    \/ receive_subscribe
    \/ send_keyload_for_everyone
    \/ send_first_packet
    \/ send_loop
    \/ try_next

FaultySpec == FaultyInit /\ [][FaultyNext]_vars

-----------------------------------------------------------------------------
\* The adapter on its own: any caller sends and receives messages with bodies
\* of up to MaxBodyLen bytes at two links, against a store that may fail.

\* two byte strings of every length up to MaxBodyLen
SampleByte(i) == (90 + 75 * i) % 256
Bodies ==
    {[i \in 1 .. n |-> SampleByte(i)] : n \in 0 .. MaxBodyLen}
        \cup {[i \in 1 .. n |-> 255 - SampleByte(i)] : n \in 0 .. MaxBodyLen}
AdapterLinks == {SubLink, ChainLink(255)}

AdapterInit ==
    /\ store = << >>
    /\ issued = NoCred
    /\ client = NewClient
    /\ lastReq = NoReq
    /\ lastResp = NetErr
    /\ lastRes = NoRes
    /\ lastFault = "none"
    /\ inflight = << >>
    /\ pc = "adapter"
    /\ run = 1
    /\ reliable = FALSE
    /\ faults = 0
    /\ author = NewAuthor
    /\ subscriber = NewSubscriber
    /\ is_new = FALSE
    /\ num_msgs = 0
    /\ subscriber_is_new = FALSE
    /\ keyload_link = NoLink
    /\ last_msg_link = NoLink
    /\ x = 0
    /\ sent = << >>
    /\ consumed = << >>
    /\ hist = NewHist(<< >>, 0)

adapter_rest == << issued, client, inflight, pc, run, reliable, faults, author, subscriber, locals,
                   sent, consumed >>

\* Transport::send_message called with a message (link, body)
adapter_send ==
    /\ pc = "adapter"
    /\ \E link \in AdapterLinks, body \in Bodies, f \in SetFaults :
        /\ Send(TangleMessage(link, DefaultAddress, body), f)
        /\ hist' = Note([hist EXCEPT !.arg = link,
                                     !.written = IF store' = store /\ f # "none" THEN @
                                                 ELSE (link :> [body |-> body, acked |-> f = "none"]) @@ @],
                        store, lastReq', lastFault')
    /\ UNCHANGED adapter_rest

\* Transport::recv_message called with a link
adapter_recv ==
    /\ pc = "adapter"
    /\ \E link \in AdapterLinks, f \in GetFaults :
        /\ Recv(link, f)
        /\ hist' = Note([hist EXCEPT !.arg = link], store, lastReq', lastFault')
    /\ UNCHANGED adapter_rest

AdapterNext == adapter_send \/ adapter_recv

AdapterSpec == AdapterInit /\ [][AdapterNext]_vars

-----------------------------------------------------------------------------
\* Properties

\* the positions of main after the announce-or-recover step and the
\* synchronization have completed
AfterSync == {"receive_announcement", "send_subscribe", "receive_subscribe",
              "send_keyload", "send_first_packet", "send_loop", "consume", "done"}

\* the signed packets among the messages the Subscriber's sequence yielded
Packets(msgs) == SelectSeq(msgs, LAMBDA m : m.masked.some)

\* C1: when the announcement send fails for a reason other than a record
\* already existing at the announcement link, the run aborts and Author::recover
\* is not called.
C1_AnnounceFailureAborts ==
    hist.annFail = "other" => (pc = "aborted" /\ ~hist.recover)

\* C2: in a run that starts with a record at the announcement key (the store
\* answering every request faithfully) no write request for the announcement
\* key is issued, and once the announce step is over the run is on
\* the Recovered branch (is_new is false and Author::recover is the next call
\* or has been made).
C2_RecoveredNoOverwrite ==
    hist.annAtStart =>
        /\ ~hist.annWrite
        /\ pc # "announce_send"
        /\ pc \notin {"login", "use_db", "announce"} =>
               (~is_new /\ hist.annFail = "exists" /\ (pc = "recover" \/ hist.recover))

C2_Witness ==
    /\ hist.annAtStart
    /\ ~hist.faulty
    /\ ~hist.annWrite
    /\ hist.recover
    /\ pc = "sync"

\* C3: when the driver has run to its end once and is run again on the same
\* store (the store answering faithfully), the second run has is_new = false
\* and synchronizes at least 101 messages.
C3_SecondRun ==
    (hist.prevDone >= 1 /\ pc \in AfterSync) =>
        (~is_new /\ num_msgs >= 101)

C3_Witness ==
    /\ run = 2
    /\ hist.prevDone = 1
    /\ pc = "receive_announcement"
    /\ ~is_new
    /\ num_msgs >= 101

\* C4: a send_message of a message whose encoded body the store already holds
\* at the key of its link, answered faithfully by the store, leaves every
\* record of the store as it was and returns success.
C4_IdempotentWrite ==
    [][ ( /\ lastReq'.kind = "set"
          /\ lastFault' = "none"
          /\ hist'.resend )
        => (store' = store /\ lastRes'.kind = "ok") ]_vars

C4_Witness ==
    /\ hist.resend
    /\ lastReq.kind = "set"
    /\ lastFault = "none"
    /\ lastRes.kind = "ok"
    /\ Len(lastReq.value) > 0

\* C5 as stated: at the end of a run the Subscriber's sequence has yielded
\* exactly as many messages as signed packets were published, the i-th with the
\* payload of the i-th packet.
C5_ExactlyN ==
    pc = "done" =>
        /\ Len(consumed) = Len(sent)
        /\ \A i \in 1 .. Len(consumed) : consumed[i].payload = sent[i].masked

\* C5 amended: at the end of a run the signed packets the Subscriber's sequence
\* has yielded are exactly the published ones, in the order of publication,
\* each at its link and with its payload; the other messages it yields (the
\* keyloads) carry no payload.
C5_PacketsInOrder ==
    pc = "done" =>
        /\ Len(Packets(consumed)) = Len(sent)
        /\ \A i \in 1 .. Len(sent) :
              /\ Packets(consumed)[i].link = sent[i].link
              /\ Packets(consumed)[i].payload = sent[i].masked
        /\ \A i \in 1 .. Len(consumed) :
              ~consumed[i].masked.some => consumed[i].payload = empty_payload

C5_Witness ==
    /\ pc = "done"
    /\ Len(sent) = 101
    /\ Len(Packets(consumed)) = 101
    /\ Len(consumed) = 102

\* C6 as stated: in the run on a fresh store the Subscriber's sequence yields
\* exactly 101 payloads: empty bytes, then the single bytes 0, 1, ..., 99.
C6_EmptyThenBytes ==
    (run = 1 /\ ~hist.annAtStart /\ pc = "done") =>
        /\ Len(consumed) = 101
        /\ \A i \in 1 .. Len(consumed) :
              consumed[i].payload = IF i = 1 THEN << >> ELSE << i - 2 >>

\* C6 amended: in the run on a fresh store the Author publishes 101 packets,
\* the first chained to the keyload link with the masked payload "test branch"
\* and the next hundred with the single bytes 0, 1, ..., 99; the Subscriber's
\* sequence yields the keyload without a payload and then exactly these 101
\* payloads in that order.
C6_TestBranchThenBytes ==
    (run = 1 /\ ~hist.annAtStart /\ pc = "done") =>
        /\ Len(sent) = 101
        /\ sent[1].link_to = keyload_link
        /\ \A i \in 1 .. Len(sent) :
              sent[i].masked =
                  IF i = 1
                  THEN << 116, 101, 115, 116, 32, 98, 114, 97, 110, 99, 104 >>
                  ELSE << i - 2 >>
        /\ Len(consumed) = 102
        /\ ~consumed[1].masked.some
        /\ \A i \in 2 .. Len(consumed) :
              /\ consumed[i].masked.some
              /\ consumed[i].payload = sent[i - 1].masked

C6_Witness ==
    /\ run = 1
    /\ ~hist.annAtStart
    /\ is_new
    /\ pc = "done"
    /\ Len(consumed) = 102
    /\ consumed[102].payload = << 99 >>

\* C7: recv_message on a link whose key was never written never returns a
\* message; it returns an error whenever the store answers faithfully, with an
\* error status or not at all.
C7_MissIsError ==
    (lastReq.kind = "get" /\ lastReq.key \notin DOMAIN store) =>
        /\ lastRes.kind # "ok"
        /\ lastFault \in {"none", "status", "neterr"} => lastRes.kind = "err"
        /\ lastFault = "none" => lastRes = Err(<< "Error", 404 >>)

C7_Witness ==
    /\ lastReq.kind = "get"
    /\ lastReq.key \notin DOMAIN store
    /\ DOMAIN store # {}
    /\ lastFault = "none"
    /\ lastRes.kind = "err"

\* C8: send_message returns success exactly when the store answered the write
\* request with a success status; on another status it returns an error that
\* carries the index of the message's link, and it never returns success for
\* a write the store did not acknowledge.
C8_SendResult ==
    lastReq.kind = "set" =>
        /\ lastRes.kind = "ok" <=> (lastResp.net /\ is_success(lastResp.status))
        /\ (lastResp.net /\ ~is_success(lastResp.status)) =>
              /\ lastRes.kind = "err"
              /\ lastRes.error = << "error sending message to", decode(lastReq.key).bytes >>
        /\ lastRes.kind = "ok" =>
              (lastReq.key \in DOMAIN store /\ store[lastReq.key] = lastReq.value)

C8_Witness ==
    /\ lastReq.kind = "set"
    /\ lastResp.net
    /\ lastResp.status = 500
    /\ lastRes.kind = "err"
    /\ lastReq.key \notin DOMAIN store

\* C9: once the login request or the select-database request has been answered
\* with a non-success status, the run is aborted and no message request is
\* made.
C9_BadLoginAborts ==
    hist.loginBad => (pc = "aborted" /\ ~hist.msgReqAfterBadLogin)

\* C10: once the store has issued a session credential, the adapter's client
\* holds it and every later request carries it.
C10_CredentialUsed ==
    issued # NoCred =>
        /\ client.cred = issued
        /\ lastReq.kind \in {"use_db", "set", "get"} => lastReq.cred = issued

\* C11: when the store answers a read with a success status and a body without
\* a value field, recv_message returns an error value to its caller, and that
\* error is not the not-found error.
C11_MissingValueIsError ==
    ( /\ lastReq.kind = "get"
      /\ lastResp.net
      /\ is_success(lastResp.status)
      /\ lastResp.value = NoValue )
    => ( /\ lastRes.kind = "err"
         /\ lastRes # Err(<< "Error", 404 >>) )

\* C12: when the store answers a read with a success status and a value that
\* is not validly encoded text, recv_message returns the decode error to its
\* caller; a message it returns always has the body the value decodes to, never
\* an empty or defaulted one.
C12_DecodeErrorReturned ==
    lastReq.kind = "get" =>
        /\ ( /\ lastResp.net
             /\ is_success(lastResp.status)
             /\ lastResp.value # NoValue
             /\ ~decode(lastResp.value).ok )
           => lastRes = Err(<< "base64" >>)
        /\ lastRes.kind = "ok" =>
             /\ decode(lastResp.value).ok
             /\ lastRes.value.body = decode(lastResp.value).bytes

C12_Witness ==
    /\ lastReq.kind = "get"
    /\ lastFault = "badpad"
    /\ lastReq.key \in DOMAIN store
    /\ ~decode(lastResp.value).ok
    /\ lastRes.kind = "err"

\* the state of the Author at each position of main
AuthorState ==
    CASE pc \in {"login", "use_db", "announce", "announce_send", "recover"} -> "Uninitialized"
      [] pc = "sync" -> IF is_new THEN "Announced" ELSE "Recovered"
      [] pc \in {"receive_announcement", "send_subscribe", "receive_subscribe",
                 "send_keyload"} -> "Synchronized"
      [] pc = "send_first_packet" -> "AuthorizedSubscribers"
      [] pc = "send_loop" -> "Publishing"
      [] pc \in {"consume", "done"} -> "Idle"
      [] OTHER -> "Aborted"

\* the place of a state in the Author's lifecycle
Rank(st) ==
    CASE st = "Uninitialized" -> 0
      [] st \in {"Announced", "Recovered"} -> 1
      [] st = "Synchronized" -> 2
      [] st = "AuthorizedSubscribers" -> 3
      [] st = "Publishing" -> 4
      [] st = "Idle" -> 5
      [] OTHER -> 6

\* C13: within a run the Author's state changes only to the next state of
\* Uninitialized, Announced or Recovered, Synchronized, AuthorizedSubscribers,
\* Publishing, Idle (or the run aborts), so a run that reaches the end has
\* passed through all of them in order; the run is Announced exactly when it
\* is not Recovered.
C13_LifecycleInOrder ==
    /\ [](~(is_new /\ hist.recover))
    /\ [](pc = "done" => (is_new \/ hist.recover))
    /\ [][ (run' = run /\ AuthorState' # AuthorState)
           => ( /\ AuthorState # "Aborted"
                /\ \/ AuthorState' = "Aborted"
                   \/ Rank(AuthorState') = Rank(AuthorState) + 1
                /\ Rank(AuthorState) >= 1 => is_new' = is_new ) ]_vars

C13_Witness ==
    /\ pc = "done"
    /\ hist.recover
    /\ ~is_new
    /\ AuthorState = "Idle"
    /\ Len(sent) = NumLoopMsgs + 1

\* the requests of the run that the state shows: the one last answered and the
\* one outstanding
SeenRequests == {lastReq} \cup {inflight[i] : i \in 1 .. Len(inflight)}

\* C14: in a run there is at most one login and one select-database, the
\* select-database after the login; a verified-set or verified-get request is
\* made only after both, and it is made in the session the login established,
\* that is with the credential the store issued.
C14_OneSessionUsed ==
    /\ hist.logins <= 1
    /\ hist.useDbs <= hist.logins
    /\ \A req \in SeenRequests :
          req.kind \in {"set", "get"} =>
              /\ hist.logins = 1
              /\ hist.useDbs = 1
              /\ issued # NoCred
              /\ req.cred = issued

\* C15: once a request of receive-announcement, send-subscribe, the Author's
\* receive of the subscription, the keyload send, a signed-packet send or the
\* message consumption has failed in the transport, the run is aborted.
C15_TransportFailureAborts ==
    hist.failedStep # "none" => pc = "aborted"

\* the packets of `sent` published in run r
SentInRun(r) == SelectSeq(sent, LAMBDA m : m.run = r)

\* C16: after the Author refused the subscription because the subscriber is
\* not new, the run is not aborted: the outcome is reported as false, main goes
\* on to the keyload and the signed packets, and a run that ends has published
\* the keyload and all its packets.
C16_SubscriberNotNewGoesOn ==
    hist.subNotNew =>
        /\ ~subscriber_is_new
        /\ pc \in {"send_keyload", "send_first_packet", "send_loop", "consume", "done"}
        /\ pc \in {"send_first_packet", "send_loop", "consume", "done"} =>
              /\ keyload_link # NoLink
              /\ encode(to_msg_index(keyload_link)) \in DOMAIN store
        /\ pc \in {"consume", "done"} => Len(SentInRun(run)) = NumLoopMsgs + 1

C16_Witness ==
    /\ hist.subNotNew
    /\ ~subscriber_is_new
    /\ pc = "done"
    /\ Len(SentInRun(run)) = NumLoopMsgs + 1

\* the link the record stored for link l is chained to
StoredLinkTo(l) == unframe(decode(store[encode(to_msg_index(l))]).bytes).link_to

\* the type of the record stored for link l
StoredType(l) == unframe(decode(store[encode(to_msg_index(l))]).bytes).type

\* C17: the first signed packet of a run is chained to the link of the run's
\* keyload, and every later packet to the link the send of the packet before it
\* returned; the stored records say the same, and no link is chained to twice
\* or published twice.
C17_Chained ==
    /\ \A i \in 1 .. Len(sent) :
          /\ StoredType(sent[i].link) = SignedPacket
          /\ StoredLinkTo(sent[i].link) = sent[i].link_to
          /\ IF i > 1 /\ sent[i - 1].run = sent[i].run
             THEN sent[i].link_to = sent[i - 1].link
             ELSE /\ StoredType(sent[i].link_to) = Keyload
                  /\ sent[i].run = run => sent[i].link_to = keyload_link
    /\ Cardinality({sent[i].link_to : i \in 1 .. Len(sent)}) = Len(sent)
    /\ Cardinality({sent[i].link : i \in 1 .. Len(sent)}) = Len(sent)
    /\ pc \in {"send_loop", "consume", "done"} => last_msg_link = sent[Len(sent)].link

C17_Witness ==
    /\ pc = "done"
    /\ run = 2
    /\ Len(SentInRun(run)) = NumLoopMsgs + 1
    /\ SentInRun(run)[1].link_to = keyload_link
    /\ SentInRun(run)[NumLoopMsgs + 1].link_to = SentInRun(run)[NumLoopMsgs].link

\* C18: at most one request to the store is outstanding, and it is the request
\* of the step main is at; a step that takes its link from an earlier step is
\* reached only when the send that returned that link has been answered with
\* success.
C18_OneAtATime ==
    /\ Len(inflight) <= 1
    /\ inflight # << >> => inflight[1] = StepRequest
    /\ pc = "receive_subscribe" =>
          /\ lastRes.kind = "ok"
          /\ lastReq.kind = "set"
          /\ lastReq.key = SubKey
    /\ pc = "send_first_packet" =>
          /\ lastRes.kind = "ok"
          /\ lastReq.kind = "set"
          /\ keyload_link # NoLink
          /\ lastReq.key = encode(to_msg_index(keyload_link))
    /\ pc = "send_loop" =>
          /\ lastRes.kind = "ok"
          /\ lastReq.kind = "set"
          /\ last_msg_link # NoLink
          /\ lastReq.key = encode(to_msg_index(last_msg_link))

C18_Witness ==
    /\ pc = "send_loop"
    /\ x = 1
    /\ Len(inflight) = 1
    /\ inflight[1].kind = "set"
    /\ lastRes.kind = "ok"
    /\ hist.faulty

\* The runs of Spec in which the runtime keeps driving main and the store
\* answers every request: a step of main that can be taken is taken.
LiveSpec == Init /\ [][Next]_vars /\ WF_vars(issue) /\ WF_vars(try_next)

\* C19: the consumption of the Subscriber's sequence ends: from the loop main
\* reaches the end of the run. Every answered receive of the loop that does not
\* end it moves on by one link, and at the end the last receive was the one for
\* the first link of the chain without a record, answered with not-found, after
\* one message for every link before it.
C19_ConsumptionEnds ==
    /\ (pc = "consume") ~> (pc = "done")
    /\ [][ (pc = "consume" /\ pc' = "consume" /\ inflight # << >> /\ inflight' = << >>)
           => ( /\ lastReq' = GetRequest(client, ChainLink(subscriber.seq))
                /\ subscriber'.seq = subscriber.seq + 1
                /\ Len(consumed') = Len(consumed) + 1 ) ]_vars
    /\ [](pc = "done" =>
            /\ encode(to_msg_index(ChainLink(subscriber.seq))) \notin DOMAIN store
            /\ \A n \in 0 .. subscriber.seq - 1 :
                  encode(to_msg_index(ChainLink(n))) \in DOMAIN store
            /\ Len(consumed) = subscriber.seq
            /\ lastReq = GetRequest(client, ChainLink(subscriber.seq))
            /\ lastRes = Err(<< "Error", 404 >>))

C19_Witness ==
    /\ pc = "done"
    /\ run = 2
    /\ Len(consumed) = subscriber.seq
    /\ Len(consumed) > 2 * NumLoopMsgs
    /\ lastRes = Err(<< "Error", 404 >>)

\* C20: a receive for link L that the store answers faithfully, after a send
\* for L returned success and nothing was written under L's key since, returns
\* the message with link L and exactly the body sent, whatever was sent for
\* other links in between; send and receive ask for the key of the link they
\* are called with, and distinct links have distinct keys.
C20_RoundTrip ==
    /\ ( /\ lastReq.kind = "get"
         /\ lastFault = "none"
         /\ hist.arg \in DOMAIN hist.written
         /\ hist.written[hist.arg].acked )
       => lastRes = Ok(TangleMessage(hist.arg, DefaultAddress, hist.written[hist.arg].body))
    /\ lastReq.kind \in {"set", "get"} =>
          /\ decode(lastReq.key).ok
          /\ decode(lastReq.key).bytes = to_msg_index(hist.arg)
    /\ \A l1 \in AdapterLinks, l2 \in AdapterLinks :
          l1 # l2 => encode(to_msg_index(l1)) # encode(to_msg_index(l2))

C20_Witness ==
    /\ lastReq.kind = "get"
    /\ lastFault = "none"
    /\ hist.arg = ChainLink(255)
    /\ DOMAIN hist.written = AdapterLinks
    /\ hist.written[hist.arg].acked
    /\ Len(hist.written[hist.arg].body) = MaxBodyLen
    /\ hist.written[SubLink].body # hist.written[hist.arg].body
    /\ lastRes.kind = "ok"
    /\ lastRes.value.body = hist.written[hist.arg].body

====
